---- MODULE Spec2Model ----
(***************************************************************************)
(* Leaderboard participant repository (platform-libs/leaderboard).        *)
(*                                                                         *)
(* One leaderboard is modelled.  The authoritative store (DynamoDB table   *)
(* PlatformLeaderboardScores, partition leaderboardID) is the function     *)
(* dynamo from namespacedUserID to score.  The ordered cache (the Redis    *)
(* sorted set "leaderboard:<id>") is the record cache = [z, ttl]: z maps   *)
(* the members of the sorted set to their scores, ttl is the set holding   *)
(* the key's absolute expiry deadline, empty when the key has none.  As in *)
(* Redis a sorted set with no member does not exist as a key.              *)
(*                                                                         *)
(* Strings are sequences of one-character strings, so that                 *)
(* strings.Split can be computed.  Scores are integers counting thirds of  *)
(* 10^-6: fmt.Sprintf("%f", x) keeps six decimals, so it rounds a score    *)
(* to the nearest multiple of 3 units, and no integer is a rounding tie.   *)
(* Time is counted in units of 24 hours.                                   *)
(*                                                                         *)
(* Spec runs whole calls one after the other, with store failures.         *)
(* SpecHelper runs the identifier functions and the helper on drawn        *)
(* strings.  SpecConc interleaves the store calls of concurrent callers.   *)
(***************************************************************************)
EXTENDS Integers, Sequences, FiniteSets, TLC

VARIABLES
    dynamo,     \* authoritative records: namespacedUserID -> score
    cache,      \* [z |-> member -> score, ttl |-> {deadline} or {}]
    now,        \* utils.GetCurrTimeStamp()
    endTime,    \* leaderboardEndTime passed to every call
    clientID,   \* IndividualLeaderboardHelper.clientID
    userID,     \* the userID argument of CreateNamespacedUserID
    raw,        \* the argument of SplitNamespacedUserID / validateNamespacedUserID
    last,       \* the last call: its arguments, injected faults and outcome
    prev,       \* the call before the last one, in brief
    calls,      \* number of calls made so far
    faulted,    \* a store call has failed in some call so far
    sums,       \* id -> sum of the deltas of its successful UpdateScore calls
    touched,    \* ids that had a record initially or were the target of a write
    procs,      \* concurrent calls: caller -> its call, position and locals
    began       \* the two stores when the concurrent calls began

vars == <<dynamo, cache, now, endTime, clientID, userID, raw, last, prev, calls, faulted, sums, touched,
          procs, began>>

----------------------------------------------------------------------------
(* Bounds of the model *)

MaxCalls == 2
MaxTime == 2
MaxLen == 3
MaxRawLen == 7
PageSize == 2
MaxProcs == 3

(* 24 * time.Hour, in units of 24 hours *)
GracePeriod == 1

----------------------------------------------------------------------------
(* Strings *)

Alphabet == {"a", "_"}

Sep == <<"_", "_", "_">>

RECURSIVE StringsUpTo(_)
StringsUpTo(n) ==
    IF n = 0 THEN {<<>>}
    ELSE LET shorter == StringsUpTo(n - 1)
         IN  shorter \cup {Append(s, c) : s \in {t \in shorter : Len(t) = n - 1}, c \in Alphabet}

CharCode(c) ==
    CASE c = "_" -> 95
      [] c = "a" -> 97
      [] c = "b" -> 98
      [] c = "x" -> 120
      [] c = "y" -> 121

(* byte-wise lexicographic order, as Redis orders members of equal score *)
StrLess(s, t) ==
    \E i \in 1..(Len(t)) :
        /\ \A j \in 1..(i - 1) : j <= Len(s) /\ s[j] = t[j]
        /\ \/ i = Len(s) + 1
           \/ i <= Len(s) /\ CharCode(s[i]) < CharCode(t[i])

(* strings.Index(s, "___"): the first position of the separator, 0 if none *)
IndexSep(s) ==
    LET hits == {i \in 1..(Len(s) - 2) : SubSeq(s, i, i + 2) = Sep}
    IN  IF hits = {} THEN 0 ELSE CHOOSE i \in hits : \A j \in hits : i <= j

(* strings.Split(s, "___"): cut at each separator found scanning left to right *)
RECURSIVE StringsSplit(_)
StringsSplit(s) ==
    LET i == IndexSep(s)
    IN  IF i = 0 THEN <<s>>
        ELSE <<SubSeq(s, 1, i - 1)>> \o StringsSplit(SubSeq(s, i + 3, Len(s)))

(* the positions at which the separator occurs *)
Occurrences(s) == {i \in 1..(Len(s) - 2) : SubSeq(s, i, i + 2) = Sep}

ContainsSep(s) == Occurrences(s) # {}

(* exactly one occurrence, counted without overlap as strings.Count does:  *)
(* no occurrence starts after the end of the first one                     *)
ExactlyOneSep(s) ==
    /\ Occurrences(s) # {}
    /\ \A i \in Occurrences(s) : i < IndexSep(s) + 3

CreateNamespacedUserID(c, u) == c \o Sep \o u

SplitNamespacedUserID(s) ==
    LET parts == StringsSplit(s)
    IN  IF Len(parts) = 2 THEN <<parts[1], parts[2]>> ELSE <<<<>>, <<>>>>

(* mutant: rejected only when both parts are empty *)
validateNamespacedUserIDBothEmpty(s) ==
    LET p == SplitNamespacedUserID(s)
    IN  IF p[1] = <<>> /\ p[2] = <<>>
        THEN [clientID |-> <<>>, userID |-> <<>>, err |-> "InvalidIdentifier"]
        ELSE [clientID |-> p[1], userID |-> p[2], err |-> "none"]

validateNamespacedUserID(s) ==
    LET p == SplitNamespacedUserID(s)
    IN  IF p[1] = <<>> \/ p[2] = <<>>
        THEN [clientID |-> <<>>, userID |-> <<>>, err |-> "InvalidIdentifier"]
        ELSE [clientID |-> p[1], userID |-> p[2], err |-> "none"]

----------------------------------------------------------------------------
(* The ordered cache: Redis commands on the leaderboard's sorted set *)

EmptyZ == <<>>

ColdCache == [z |-> EmptyZ, ttl |-> {}]

Put(z, m, s) == [k \in (DOMAIN z) \cup {m} |-> IF k = m THEN s ELSE z[k]]

Remove(z, m) == [k \in (DOMAIN z) \ {m} |-> z[k]]

(* redisClient.Exists(redisKey) *)
KeyExists(c) == DOMAIN c.z # {}

CmdDel == [op |-> "DEL", member |-> <<>>, arg |-> 0]
CmdZAdd(m, s) == [op |-> "ZADD", member |-> m, arg |-> s]
CmdZIncrBy(m, d) == [op |-> "ZINCRBY", member |-> m, arg |-> d]
CmdZRem(m) == [op |-> "ZREM", member |-> m, arg |-> 0]
CmdExpire(dur) == [op |-> "EXPIRE", member |-> <<>>, arg |-> dur]

(* redis.Z{}: score 0 and a nil member, which go-redis writes as "" *)
Placeholder == CmdZAdd(<<>>, 0)

ApplyCmd(c, cmd, t) ==
    CASE cmd.op = "DEL" -> ColdCache
      [] cmd.op = "ZADD" -> [c EXCEPT !.z = Put(c.z, cmd.member, cmd.arg)]
      [] cmd.op = "ZINCRBY" ->
            [c EXCEPT !.z = Put(c.z, cmd.member,
                (IF cmd.member \in DOMAIN c.z THEN c.z[cmd.member] ELSE 0) + cmd.arg)]
      [] cmd.op = "ZREM" ->
            LET z2 == Remove(c.z, cmd.member)
            IN  IF DOMAIN z2 = {} THEN ColdCache ELSE [c EXCEPT !.z = z2]
      [] cmd.op = "EXPIRE" ->
            IF ~KeyExists(c) THEN c
            ELSE IF cmd.arg <= 0 THEN ColdCache
            ELSE [c EXCEPT !.ttl = {t + cmd.arg}]

(* pipe.Exec: the queued commands run in the order they were queued *)
RECURSIVE ExecPipe(_, _, _)
ExecPipe(c, cmds, t) ==
    IF cmds = <<>> THEN c
    ELSE ExecPipe(ApplyCmd(c, Head(cmds), t), Tail(cmds), t)

(* a key whose deadline has been reached is gone *)
Expired(c, t) == IF \E dl \in c.ttl : dl <= t THEN ColdCache ELSE c

(* m ranks above k in descending order: higher score, ties by higher member *)
Above(z, m, k) == z[m] > z[k] \/ (z[m] = z[k] /\ StrLess(k, m))

(* ZREVRANK: the number of members ranked above m *)
ZRevRank(z, m) == Cardinality({k \in DOMAIN z : Above(z, k, m)})

(* the members in descending order *)
RevOrder(z) ==
    [i \in 1..Cardinality(DOMAIN z) |-> CHOOSE m \in DOMAIN z : ZRevRank(z, m) = i - 1]

(* ZREVRANGE start stop WITHSCORES, with Redis' index rules (negative    *)
(* indexes count from the end, out-of-range indexes are clamped)           *)
ZRevRangeWithScores(z, start, stop) ==
    LET len == Cardinality(DOMAIN z)
        s0 == IF start < 0 THEN len + start ELSE start
        e0 == IF stop < 0 THEN len + stop ELSE stop
        s1 == IF s0 < 0 THEN 0 ELSE s0
        e1 == IF e0 >= len THEN len - 1 ELSE e0
        ord == RevOrder(z)
    IN  IF s1 > e1 \/ s1 >= len THEN <<>>
        ELSE [i \in 1..(e1 - s1 + 1) |-> [Member |-> ord[s1 + i], Score |-> z[ord[s1 + i]]]]

----------------------------------------------------------------------------
(* Faults injected into one call: which store call fails *)

NoFault ==
    [write |-> FALSE,     \* UpdateItem / PutItem / DeleteItem fails
     getItem |-> FALSE,   \* GetItem fails
     exists |-> FALSE,    \* redisClient.Exists fails
     scanFail |-> 0,      \* paginator.NextPage fails on this page (0: never)
     badPage |-> 0,       \* UnmarshalListOfMaps fails on this page (0: never)
     exec |-> FALSE,      \* Exec of the population pipeline fails
     pipe |-> FALSE,      \* Exec of the operation's own pipeline fails
     read |-> FALSE,      \* ZScore / ZRevRangeWithScores fails
     rank |-> FALSE]      \* ZRevRank fails

F(field) == [NoFault EXCEPT ![field] = TRUE]

EnsureFaults ==
    {F("exists"), F("exec"),
     [NoFault EXCEPT !.scanFail = 1], [NoFault EXCEPT !.scanFail = 2],
     [NoFault EXCEPT !.badPage = 1],
     [NoFault EXCEPT !.scanFail = 1, !.exec = TRUE]}

TopNFaults == {F("read"), F("exec")}

ReadFaults == {F("exists"), F("read"), F("rank"), [NoFault EXCEPT !.scanFail = 1]}

UpdateFaults ==
    {F("write"), F("exists"), F("exec"), F("pipe"), [NoFault EXCEPT !.scanFail = 1]}

JoinFaults == {F("getItem"), F("write"), F("exec"), F("pipe")}

LeaveFaults == {F("pipe"), F("write")}

CacheFault(f) == f.exists \/ f.exec \/ f.pipe \/ f.read \/ f.rank

----------------------------------------------------------------------------
(* Synchronization: lazy population of the cache *)

(* mutant: the deadline is compared with "not before" instead of After *)
setupLeaderboardExpiryNotBefore(t, e) ==
    LET expiryTime == e + GracePeriod
    IN  IF expiryTime >= t THEN <<CmdExpire(expiryTime - t)>> ELSE <<>>

(* the Expire command queued by setupLeaderboardExpiry, if any *)
setupLeaderboardExpiry(t, e) ==
    LET expiryTime == e + GracePeriod
    IN  IF expiryTime > t THEN <<CmdExpire(expiryTime - t)>> ELSE <<>>

(* the records of the partition in sort-key order *)
SortedIDs(S) ==
    [i \in 1..Cardinality(S) |->
        CHOOSE m \in S : Cardinality({k \in S : StrLess(k, m)}) = i - 1]

(* the query returns at least one page, which may be empty *)
NumPages(n) == IF n = 0 THEN 1 ELSE (n + PageSize - 1) \div PageSize

PageItems(ids, i) ==
    SubSeq(ids, (i - 1) * PageSize + 1,
           IF i * PageSize < Len(ids) THEN i * PageSize ELSE Len(ids))

(* processPage: one ZAdd per item, nothing when the page does not unmarshal *)
processPage(d, items, bad) ==
    IF bad THEN <<>> ELSE [j \in 1..Len(items) |-> CmdZAdd(items[j], d[items[j]])]

RECURSIVE ScanPages(_, _, _, _)
ScanPages(d, ids, i, f) ==
    IF i > NumPages(Len(ids)) THEN [cmds |-> <<>>, err |-> FALSE]
    ELSE IF f.scanFail = i THEN [cmds |-> <<>>, err |-> TRUE]
    ELSE LET rest == ScanPages(d, ids, i + 1, f)
         IN  [cmds |-> processPage(d, PageItems(ids, i), f.badPage = i) \o rest.cmds,
              err |-> rest.err]

(* mutant: only the first page of the query is read *)
syncLeaderboardFirstPage(d, f) ==
    IF f.scanFail = 1 THEN [cmds |-> <<CmdDel>>, err |-> TRUE]
    ELSE [cmds |-> <<CmdDel>> \o processPage(d, PageItems(SortedIDs(DOMAIN d), 1), f.badPage = 1),
          err |-> FALSE]

(* syncLeaderboard: the commands it queues and whether it returns an error *)
syncLeaderboard(d, f) ==
    LET r == ScanPages(d, SortedIDs(DOMAIN d), 1, f)
    IN  [cmds |-> <<CmdDel>> \o r.cmds, err |-> r.err]

(* paginator.NextPage fails on a page that the scan of d reaches *)
ScanFails(d, f) == f.scanFail \in 1..NumPages(Cardinality(DOMAIN d))

(* mutant: the error of syncLeaderboard is returned to the caller *)
ensureLeaderboardExistsNoFallback(d, c, t, e, f) ==
    IF f.exists
    THEN [cache |-> c, err |-> "StoreError", scanned |-> FALSE, batch |-> <<>>]
    ELSE IF KeyExists(c)
    THEN [cache |-> c, err |-> "none", scanned |-> FALSE, batch |-> <<>>]
    ELSE LET sync == syncLeaderboard(d, f)
             batch == sync.cmds \o setupLeaderboardExpiry(t, e)
         IN  IF sync.err \/ f.exec
             THEN [cache |-> c, err |-> "StoreError", scanned |-> TRUE, batch |-> batch]
             ELSE [cache |-> ExecPipe(c, batch, t), err |-> "none",
                   scanned |-> TRUE, batch |-> batch]

(* mutant: the cache is populated again although the key exists *)
ensureLeaderboardExistsAlways(d, c, t, e, f) ==
    IF f.exists
    THEN [cache |-> c, err |-> "StoreError", scanned |-> FALSE, batch |-> <<>>]
    ELSE LET sync == syncLeaderboard(d, f)
             queued == IF sync.err THEN Append(sync.cmds, Placeholder) ELSE sync.cmds
             batch == queued \o setupLeaderboardExpiry(t, e)
         IN  IF f.exec
             THEN [cache |-> c, err |-> "StoreError", scanned |-> TRUE, batch |-> batch]
             ELSE [cache |-> ExecPipe(c, batch, t), err |-> "none",
                   scanned |-> TRUE, batch |-> batch]

(* ensureLeaderboardExists: the cache afterwards, the error returned,      *)
(* whether the authoritative store was scanned and the batch submitted     *)
ensureLeaderboardExists(d, c, t, e, f) ==
    IF f.exists
    THEN [cache |-> c, err |-> "StoreError", scanned |-> FALSE, batch |-> <<>>]
    ELSE IF KeyExists(c)
    THEN [cache |-> c, err |-> "none", scanned |-> FALSE, batch |-> <<>>]
    ELSE LET sync == syncLeaderboard(d, f)
             queued == IF sync.err THEN Append(sync.cmds, Placeholder) ELSE sync.cmds
             batch == queued \o setupLeaderboardExpiry(t, e)
         IN  IF f.exec
             THEN [cache |-> c, err |-> "StoreError", scanned |-> TRUE, batch |-> batch]
             ELSE [cache |-> ExecPipe(c, batch, t), err |-> "none",
                   scanned |-> TRUE, batch |-> batch]

----------------------------------------------------------------------------
(* The authoritative store *)

(* fmt.Sprintf("%f", scoreDelta): six decimals, i.e. the nearest multiple  *)
(* of 3 units                                                              *)
FormatF(x) ==
    LET r == x % 3
    IN  IF r = 0 THEN x ELSE IF r = 1 THEN x - 1 ELSE x + 1

(* UpdateItem with SET score = if_not_exists(score, :zero) + :incVal *)
DynamoUpdateItem(d, id, incVal) ==
    Put(d, id, (IF id \in DOMAIN d THEN d[id] ELSE 0) + incVal)

DynamoPutItem(d, id, score) == Put(d, id, score)

DynamoDeleteItem(d, id) == Remove(d, id)

----------------------------------------------------------------------------
(* ParticipantRepo: each operation as the outcome of one whole call *)

Outcome(d, c, err, ens, res) ==
    [dynamo |-> d, cache |-> c, err |-> err,
     scanned |-> ens.scanned, batch |-> ens.batch, res |-> res]

NoEnsure == [scanned |-> FALSE, batch |-> <<>>]

(* ranks are the positions in the returned slice, from 1 *)
WithRanks(results) ==
    [i \in 1..Len(results) |->
        [Member |-> results[i].Member, Score |-> results[i].Score, Rank |-> i]]

GetTopNParticipants(d, c, t, e, n, f) ==
    LET ens == ensureLeaderboardExists(d, c, t, e, f)
    IN  IF ens.err # "none" THEN Outcome(d, ens.cache, ens.err, ens, <<>>)
        ELSE IF f.read THEN Outcome(d, ens.cache, "StoreError", ens, <<>>)
        ELSE Outcome(d, ens.cache, "none", ens,
                     WithRanks(ZRevRangeWithScores(ens.cache.z, 0, n - 1)))

(* mutant: a member missing from the sorted set is read as score 0 *)
GetParticipantScoreAndRankNilAsZero(d, c, t, e, id, f) ==
    LET ens == ensureLeaderboardExists(d, c, t, e, f)
        z == ens.cache.z
    IN  IF ens.err # "none" THEN Outcome(d, ens.cache, ens.err, ens, <<>>)
        ELSE IF f.read \/ f.rank THEN Outcome(d, ens.cache, "StoreError", ens, <<>>)
        ELSE Outcome(d, ens.cache, "none", ens,
                     <<[Member |-> id, Score |-> IF id \in DOMAIN z THEN z[id] ELSE 0,
                        Rank |-> ZRevRank(Put(z, id, IF id \in DOMAIN z THEN z[id] ELSE 0), id) + 1]>>)

GetParticipantScoreAndRank(d, c, t, e, id, f) ==
    LET ens == ensureLeaderboardExists(d, c, t, e, f)
        z == ens.cache.z
    IN  IF ens.err # "none" THEN Outcome(d, ens.cache, ens.err, ens, <<>>)
        ELSE IF f.read THEN Outcome(d, ens.cache, "StoreError", ens, <<>>)
        ELSE IF id \notin DOMAIN z THEN Outcome(d, ens.cache, "NotFound", ens, <<>>)
        ELSE IF f.rank THEN Outcome(d, ens.cache, "StoreError", ens, <<>>)
        ELSE Outcome(d, ens.cache, "none", ens,
                     <<[Member |-> id, Score |-> z[id], Rank |-> ZRevRank(z, id) + 1]>>)

UpdateScore(d, c, t, e, id, delta, f) ==
    IF f.write THEN Outcome(d, c, "StoreError", NoEnsure, <<>>)
    ELSE LET d1 == DynamoUpdateItem(d, id, FormatF(delta))
             pipe == <<CmdZIncrBy(id, delta)>>
             ens == ensureLeaderboardExists(d1, c, t, e, f)
         IN  IF ens.err # "none" THEN Outcome(d1, ens.cache, ens.err, ens, <<>>)
             ELSE IF f.pipe THEN Outcome(d1, ens.cache, "StoreError", ens, <<>>)
             ELSE Outcome(d1, ExecPipe(ens.cache, pipe, t), "none", ens, <<>>)

(* the GetItem result is discarded: only its error is looked at *)
JoinLeaderboard(d, c, t, e, id, score, f) ==
    IF f.getItem THEN Outcome(d, c, "StoreError", NoEnsure, <<>>)
    ELSE IF f.write THEN Outcome(d, c, "StoreError", NoEnsure, <<>>)
    ELSE LET d1 == DynamoPutItem(d, id, score)
             pipe == <<CmdZAdd(id, score)>>
             ens == ensureLeaderboardExists(d1, c, t, e, f)
         IN  IF ens.err # "none" THEN Outcome(d1, ens.cache, ens.err, ens, <<>>)
             ELSE IF f.pipe THEN Outcome(d1, ens.cache, "StoreError", ens, <<>>)
             ELSE Outcome(d1, ExecPipe(ens.cache, pipe, t), "none", ens, <<>>)

(* mutant: the authoritative record is left in place *)
LeaveLeaderboardCacheOnly(d, c, t, id, f) ==
    IF f.pipe THEN Outcome(d, c, "StoreError", NoEnsure, <<>>)
    ELSE LET c1 == ExecPipe(c, <<CmdZRem(id)>>, t)
         IN  IF f.write THEN Outcome(d, c1, "StoreError", NoEnsure, <<>>)
             ELSE Outcome(d, c1, "none", NoEnsure, <<>>)

LeaveLeaderboard(d, c, t, id, f) ==
    IF f.pipe THEN Outcome(d, c, "StoreError", NoEnsure, <<>>)
    ELSE LET c1 == ExecPipe(c, <<CmdZRem(id)>>, t)
         IN  IF f.write THEN Outcome(d, c1, "StoreError", NoEnsure, <<>>)
             ELSE Outcome(DynamoDeleteItem(d, id), c1, "none", NoEnsure, <<>>)

(* a direct call of ensureLeaderboardExists (EnsureWarm) *)
EnsureWarm(d, c, t, e, f) ==
    LET ens == ensureLeaderboardExists(d, c, t, e, f)
    IN  Outcome(d, ens.cache, ens.err, ens, <<>>)

----------------------------------------------------------------------------
(* IndividualLeaderboardHelper *)

(* the identifier the helper passes to the repository:                     *)
(* NewParticipantModel(leaderboardID, l.clientID, userID, scoreDelta)      *)
HelperTargetID(cid, s) == CreateNamespacedUserID(cid, validateNamespacedUserID(s).userID)

HelperUpdateScore(d, c, t, e, cid, s, delta, f) ==
    IF validateNamespacedUserID(s).err # "none"
    THEN Outcome(d, c, "InvalidIdentifier", NoEnsure, <<>>)
    ELSE UpdateScore(d, c, t, e, HelperTargetID(cid, s), delta, f)

HelperGetParticipantScoreAndRank(d, c, t, e, s, f) ==
    IF validateNamespacedUserID(s).err # "none"
    THEN Outcome(d, c, "InvalidIdentifier", NoEnsure, <<>>)
    ELSE GetParticipantScoreAndRank(d, c, t, e, s, f)

----------------------------------------------------------------------------
(* Inputs *)

IdAX == <<"a", "_", "_", "_", "x">>
IdAY == <<"a", "_", "_", "_", "y">>
IdBX == <<"b", "_", "_", "_", "x">>

RepoIDs == {IdAX, IdAY, IdBX}

(* the identifiers the calls are made for *)
CallIDs == {IdAX, IdBX}

(* 5, -2 and 1/3 in units of 10^-6 *)
Deltas == {15, -6, 1}

JoinScores == {0, 30}

(* initial records: two equal scores and a higher one *)
StoreOf(S) == [id \in S |-> IF id = IdBX THEN 60 ELSE 30]

InitStores == {StoreOf({}), StoreOf({IdAX}), StoreOf({IdAX, IdAY}), StoreOf(RepoIDs)}

TopNs == 0..3

(* IndividualLeaderboardHelper.leaderboardEndTime *)
LeaderboardEndTime == 0

----------------------------------------------------------------------------
(* State machine of the repository *)

NoCall ==
    [op |-> "none", id |-> <<>>, arg |-> <<>>, delta |-> 0, n |-> 0, fault |-> NoFault,
     warmBefore |-> FALSE, err |-> "none", scanned |-> FALSE, scanFailed |-> FALSE,
     batch |-> <<>>, res |-> <<>>]

Brief(call) ==
    [op |-> call.op, id |-> call.id, err |-> call.err, scanned |-> call.scanned,
     scanFailed |-> call.scanFailed, warmBefore |-> call.warmBefore]

(* the cache as a fault-free warm-up at time 0 leaves it *)
WarmOf(d) == ensureLeaderboardExists(d, ColdCache, 0, LeaderboardEndTime, NoFault).cache

(* the cache starts cold or freshly populated *)
Init ==
    /\ dynamo \in InitStores
    /\ cache \in {ColdCache, WarmOf(dynamo)}
    /\ now = 0
    /\ endTime = LeaderboardEndTime
    /\ clientID = <<"a">>
    /\ userID = <<>>
    /\ raw = <<>>
    /\ last = NoCall
    /\ prev = Brief(NoCall)
    /\ calls = 0
    /\ faulted = FALSE
    /\ sums = <<>>
    /\ touched = DOMAIN dynamo
    /\ procs = <<>>
    /\ began = <<>>

(* the faults a call may meet: at most one call of a behaviour meets a fault *)
FaultsOf(S) == IF faulted THEN {NoFault} ELSE {NoFault} \cup S

(* what every call does to the state: out is the outcome of the call *)
Finish(op, id, arg, delta, n, f, out) ==
    /\ calls < MaxCalls
    /\ calls' = calls + 1
    /\ faulted' = (faulted \/ f # NoFault)
    /\ dynamo' = out.dynamo
    /\ cache' = out.cache
    /\ prev' = Brief(last)
    /\ last' = [op |-> op, id |-> id, arg |-> arg, delta |-> delta, n |-> n, fault |-> f,
                warmBefore |-> KeyExists(cache), err |-> out.err, scanned |-> out.scanned,
                scanFailed |-> (out.scanned /\ ScanFails(out.dynamo, f)),
                batch |-> out.batch, res |-> out.res]
    /\ UNCHANGED <<now, endTime, clientID, userID, raw, procs, began>>

(* bookkeeping of the deltas applied by successful UpdateScore calls *)
AfterUpdate(id, delta, out) ==
    /\ touched' = touched \cup {id}
    /\ sums' = IF out.err # "none" THEN Remove(sums, id)
               ELSE IF id \in DOMAIN sums THEN Put(sums, id, sums[id] + delta)
               ELSE IF id \notin touched THEN Put(sums, id, delta)
               ELSE sums

AfterWrite(id) ==
    /\ touched' = touched \cup {id}
    /\ sums' = Remove(sums, id)

DoEnsureWarm ==
    \E f \in FaultsOf(EnsureFaults) :
        /\ Finish("EnsureWarm", <<>>, <<>>, 0, 0, f, EnsureWarm(dynamo, cache, now, endTime, f))
        /\ UNCHANGED <<sums, touched>>

DoGetTopNParticipants ==
    \E n \in TopNs, f \in FaultsOf(TopNFaults) :
        /\ Finish("GetTopNParticipants", <<>>, <<>>, 0, n, f,
                  GetTopNParticipants(dynamo, cache, now, endTime, n, f))
        /\ UNCHANGED <<sums, touched>>

DoGetParticipantScoreAndRank ==
    \E id \in CallIDs, f \in FaultsOf(ReadFaults) :
        /\ Finish("GetParticipantScoreAndRank", id, id, 0, 0, f,
                  GetParticipantScoreAndRank(dynamo, cache, now, endTime, id, f))
        /\ UNCHANGED <<sums, touched>>

DoUpdateScore ==
    \E id \in CallIDs, delta \in Deltas, f \in FaultsOf(UpdateFaults) :
        LET out == UpdateScore(dynamo, cache, now, endTime, id, delta, f)
        IN  /\ Finish("UpdateScore", id, id, delta, 0, f, out)
            /\ AfterUpdate(id, delta, out)

DoJoinLeaderboard ==
    \E id \in CallIDs, score \in JoinScores, f \in FaultsOf(JoinFaults) :
        /\ Finish("JoinLeaderboard", id, id, score, 0, f,
                  JoinLeaderboard(dynamo, cache, now, endTime, id, score, f))
        /\ AfterWrite(id)

DoLeaveLeaderboard ==
    \E id \in CallIDs, f \in FaultsOf(LeaveFaults) :
        /\ Finish("LeaveLeaderboard", id, id, 0, 0, f,
                  LeaveLeaderboard(dynamo, cache, now, id, f))
        /\ AfterWrite(id)

(* time passes; a key whose deadline is reached expires *)
Tick ==
    /\ now < MaxTime
    /\ now' = now + 1
    /\ cache' = Expired(cache, now + 1)
    /\ prev' = Brief(last)
    /\ last' = [NoCall EXCEPT !.op = "Tick"]
    /\ UNCHANGED <<dynamo, endTime, clientID, userID, raw, calls, faulted, sums, touched, procs, began>>

Next ==
    \/ DoEnsureWarm
    \/ DoGetTopNParticipants
    \/ DoGetParticipantScoreAndRank
    \/ DoUpdateScore
    \/ DoJoinLeaderboard
    \/ DoLeaveLeaderboard
    \/ Tick

Spec == Init /\ [][Next]_vars

----------------------------------------------------------------------------
(* State machine of the identifier functions and the helper: the inputs    *)
(* are drawn in the initial state, one call is made on them                *)

InitHelper ==
    /\ dynamo = StoreOf(RepoIDs)
    /\ cache = ColdCache
    /\ now = 0
    /\ endTime = LeaderboardEndTime
    /\ \/ /\ clientID \in StringsUpTo(MaxLen)
          /\ userID \in StringsUpTo(MaxLen)
          /\ raw = <<>>
       \/ /\ clientID = <<"a">>
          /\ userID = <<>>
          /\ raw \in StringsUpTo(MaxRawLen)
    /\ last = NoCall
    /\ prev = Brief(NoCall)
    /\ calls = 0
    /\ faulted = FALSE
    /\ sums = <<>>
    /\ touched = DOMAIN dynamo
    /\ procs = <<>>
    /\ began = <<>>

DoCreateNamespacedUserID ==
    /\ last.op = "none"
    /\ raw = <<>>
    /\ raw' = CreateNamespacedUserID(clientID, userID)
    /\ prev' = Brief(last)
    /\ last' = [NoCall EXCEPT !.op = "CreateNamespacedUserID",
                              !.arg = CreateNamespacedUserID(clientID, userID)]
    /\ UNCHANGED <<dynamo, cache, now, endTime, clientID, userID, calls, faulted, sums, touched,
                   procs, began>>

DoSplitNamespacedUserID ==
    /\ calls = 0
    /\ calls' = 1
    /\ prev' = Brief(last)
    /\ last' = [NoCall EXCEPT !.op = "SplitNamespacedUserID", !.arg = raw,
                              !.res = SplitNamespacedUserID(raw)]
    /\ UNCHANGED <<dynamo, cache, now, endTime, clientID, userID, raw, faulted, sums, touched,
                   procs, began>>

DoValidateNamespacedUserID ==
    /\ calls = 0
    /\ calls' = 1
    /\ prev' = Brief(last)
    /\ LET v == validateNamespacedUserID(raw)
       IN  last' = [NoCall EXCEPT !.op = "validateNamespacedUserID", !.arg = raw,
                                  !.err = v.err, !.res = <<v.clientID, v.userID>>]
    /\ UNCHANGED <<dynamo, cache, now, endTime, clientID, userID, raw, faulted, sums, touched,
                   procs, began>>

DoHelperUpdateScore ==
    /\ calls = 0
    /\ \E delta \in Deltas :
        LET out == HelperUpdateScore(dynamo, cache, now, endTime, clientID, raw, delta, NoFault)
            id == HelperTargetID(clientID, raw)
        IN  /\ Finish("HelperUpdateScore", id, raw, delta, 0, NoFault, out)
            /\ IF out.err = "InvalidIdentifier" THEN UNCHANGED <<sums, touched>>
               ELSE AfterUpdate(id, delta, out)

(* called first, or on the identifier the helper's UpdateScore was just   *)
(* called with                                                             *)
DoHelperGetParticipantScoreAndRank ==
    /\ calls = 0 \/ last.op = "HelperUpdateScore"
    /\ Finish("HelperGetParticipantScoreAndRank", raw, raw, 0, 0, NoFault,
              HelperGetParticipantScoreAndRank(dynamo, cache, now, endTime, raw, NoFault))
    /\ UNCHANGED <<sums, touched>>

NextHelper ==
    \/ DoCreateNamespacedUserID
    \/ DoSplitNamespacedUserID
    \/ DoValidateNamespacedUserID
    \/ DoHelperUpdateScore
    \/ DoHelperGetParticipantScoreAndRank

SpecHelper == InitHelper /\ [][NextHelper]_vars

----------------------------------------------------------------------------
(* State machine of concurrent calls: every store call of an operation is  *)
(* one atomic step, and the steps of the callers interleave.  What a       *)
(* caller does between two store calls (queueing commands on its pipeline, *)
(* computing the expiry) is local and belongs to the step before.          *)

Procs == 1..MaxProcs

(* the calls the callers make *)
ConcCalls ==
    <<[op |-> "EnsureWarm", id |-> <<>>, arg |-> 0],
      [op |-> "GetTopNParticipants", id |-> <<>>, arg |-> 2],
      [op |-> "GetParticipantScoreAndRank", id |-> IdAX, arg |-> 0],
      [op |-> "UpdateScore", id |-> IdAX, arg |-> 15],
      [op |-> "UpdateScore", id |-> IdAX, arg |-> 1],
      [op |-> "JoinLeaderboard", id |-> IdAX, arg |-> 0],
      [op |-> "LeaveLeaderboard", id |-> IdAX, arg |-> 0]>>

(* the first store call of an operation *)
FirstPc(op) ==
    CASE op = "UpdateScore" -> "updateItem"
      [] op = "JoinLeaderboard" -> "getItem"
      [] op = "LeaveLeaderboard" -> "zrem"
      [] OTHER -> "exists"

(* the store call that follows the return of ensureLeaderboardExists *)
AfterEnsure(op) ==
    CASE op = "EnsureWarm" -> "done"
      [] op = "GetTopNParticipants" -> "range"
      [] op = "GetParticipantScoreAndRank" -> "zscore"
      [] OTHER -> "execPipe"

NewProc(call) ==
    [op |-> call.op, id |-> call.id, arg |-> call.arg, pc |-> FirstPc(call.op),
     queued |-> <<>>,      \* the commands queued on the population pipeline
     cursor |-> <<>>,      \* LastEvaluatedKey of the page read last
     scanned |-> FALSE,    \* the call has read a page of the authoritative store
     score |-> 0,          \* the answer of ZScore
     seen |-> {},          \* the sorted sets the cache held from ZScore to ZRevRank
     err |-> "none", res |-> <<>>]

(* the callers are interchangeable: their calls are drawn in the order of  *)
(* ConcCalls                                                               *)
InitConc ==
    /\ dynamo \in InitStores
    /\ cache \in {ColdCache, WarmOf(dynamo)}
    /\ now = 0
    /\ endTime = LeaderboardEndTime
    /\ clientID = <<"a">>
    /\ userID = <<>>
    /\ raw = <<>>
    /\ last = NoCall
    /\ prev = Brief(NoCall)
    /\ calls = 0
    /\ faulted = FALSE
    /\ sums = <<>>
    /\ touched = DOMAIN dynamo
    /\ \E choice \in [Procs -> 1..Len(ConcCalls)] :
            /\ \A p, q \in Procs : p < q => choice[p] <= choice[q]
            /\ procs = [p \in Procs |-> NewProc(ConcCalls[choice[p]])]
    /\ began = [dynamo |-> dynamo, cache |-> cache]

UnchangedByConc == <<now, endTime, clientID, userID, raw, last, prev, calls, faulted, sums, touched, began>>

(* a step of caller p that leaves the cache alone *)
Local(p, r) == procs' = [procs EXCEPT ![p] = r]

(* a step of caller p that submits commands to the cache: the callers      *)
(* between their ZScore and their ZRevRank are shown the new sorted set    *)
Submit(p, r, cmds) ==
    LET c2 == ExecPipe(cache, cmds, now)
        ps == [procs EXCEPT ![p] = r]
    IN  /\ cache' = c2
        /\ procs' = [q \in Procs |->
                        IF ps[q].pc = "zrevrank" THEN [ps[q] EXCEPT !.seen = @ \cup {c2.z}]
                        ELSE ps[q]]

(* redisClient.Exists; on 0 the pipeline is created and syncLeaderboard    *)
(* queues the Del                                                          *)
StepExists(p) ==
    /\ procs[p].pc = "exists"
    /\ IF KeyExists(cache)
       THEN Local(p, [procs[p] EXCEPT !.pc = AfterEnsure(procs[p].op)])
       ELSE Local(p, [procs[p] EXCEPT !.pc = "scan", !.queued = <<CmdDel>>, !.cursor = <<>>])
    /\ UNCHANGED <<dynamo, cache>>
    /\ UNCHANGED UnchangedByConc

(* the records with a sort key after the cursor *)
Rest(d, cursor) == {id \in DOMAIN d : cursor = <<>> \/ StrLess(cursor, id)}

(* paginator.NextPage and processPage; after the last page               *)
(* setupLeaderboardExpiry queues the Expire                                *)
StepNextPage(p) ==
    /\ procs[p].pc = "scan"
    /\ LET ids == SortedIDs(Rest(dynamo, procs[p].cursor))
           page == PageItems(ids, 1)
           cmds == procs[p].queued \o processPage(dynamo, page, FALSE)
       IN  IF Len(ids) > PageSize
           THEN Local(p, [procs[p] EXCEPT !.queued = cmds, !.cursor = page[Len(page)],
                                          !.scanned = TRUE])
           ELSE Local(p, [procs[p] EXCEPT !.queued = cmds \o setupLeaderboardExpiry(now, endTime),
                                          !.pc = "execPop", !.scanned = TRUE])
    /\ UNCHANGED <<dynamo, cache>>
    /\ UNCHANGED UnchangedByConc

(* pipe.Exec of the population batch *)
StepExecPopulation(p) ==
    /\ procs[p].pc = "execPop"
    /\ Submit(p, [procs[p] EXCEPT !.pc = AfterEnsure(procs[p].op), !.queued = <<>>],
              procs[p].queued)
    /\ UNCHANGED dynamo
    /\ UNCHANGED UnchangedByConc

(* redisClient.ZRevRangeWithScores(0, n-1) *)
StepZRevRange(p) ==
    /\ procs[p].pc = "range"
    /\ Local(p, [procs[p] EXCEPT !.pc = "done",
                    !.res = WithRanks(ZRevRangeWithScores(cache.z, 0, procs[p].arg - 1))])
    /\ UNCHANGED <<dynamo, cache>>
    /\ UNCHANGED UnchangedByConc

(* redisClient.ZScore: redis.Nil is participant-not-found *)
StepZScore(p) ==
    /\ procs[p].pc = "zscore"
    /\ IF procs[p].id \notin DOMAIN cache.z
       THEN Local(p, [procs[p] EXCEPT !.pc = "done", !.err = "NotFound"])
       ELSE Local(p, [procs[p] EXCEPT !.pc = "zrevrank", !.score = cache.z[procs[p].id],
                                      !.seen = {cache.z}])
    /\ UNCHANGED <<dynamo, cache>>
    /\ UNCHANGED UnchangedByConc

(* redisClient.ZRevRank: every error, redis.Nil included, is returned as   *)
(* a failure of the store                                                  *)
StepZRevRank(p) ==
    /\ procs[p].pc = "zrevrank"
    /\ IF procs[p].id \notin DOMAIN cache.z
       THEN Local(p, [procs[p] EXCEPT !.pc = "done", !.err = "StoreError"])
       ELSE Local(p, [procs[p] EXCEPT !.pc = "done",
                        !.res = <<[Member |-> procs[p].id, Score |-> procs[p].score,
                                   Rank |-> ZRevRank(cache.z, procs[p].id) + 1]>>])
    /\ UNCHANGED <<dynamo, cache>>
    /\ UNCHANGED UnchangedByConc

(* dynamoClient.UpdateItem *)
StepUpdateItem(p) ==
    /\ procs[p].pc = "updateItem"
    /\ dynamo' = DynamoUpdateItem(dynamo, procs[p].id, FormatF(procs[p].arg))
    /\ Local(p, [procs[p] EXCEPT !.pc = "exists"])
    /\ UNCHANGED cache
    /\ UNCHANGED UnchangedByConc

(* dynamoClient.GetItem: the item is discarded *)
StepGetItem(p) ==
    /\ procs[p].pc = "getItem"
    /\ Local(p, [procs[p] EXCEPT !.pc = "putItem"])
    /\ UNCHANGED <<dynamo, cache>>
    /\ UNCHANGED UnchangedByConc

(* dynamoClient.PutItem *)
StepPutItem(p) ==
    /\ procs[p].pc = "putItem"
    /\ dynamo' = DynamoPutItem(dynamo, procs[p].id, procs[p].arg)
    /\ Local(p, [procs[p] EXCEPT !.pc = "exists"])
    /\ UNCHANGED cache
    /\ UNCHANGED UnchangedByConc

(* pipe.Exec of the ZIncrBy of UpdateScore or the ZAdd of JoinLeaderboard *)
StepExecPipe(p) ==
    /\ procs[p].pc = "execPipe"
    /\ Submit(p, [procs[p] EXCEPT !.pc = "done"],
              IF procs[p].op = "UpdateScore"
              THEN <<CmdZIncrBy(procs[p].id, procs[p].arg)>>
              ELSE <<CmdZAdd(procs[p].id, procs[p].arg)>>)
    /\ UNCHANGED dynamo
    /\ UNCHANGED UnchangedByConc

(* pipe.Exec of the ZRem of LeaveLeaderboard *)
StepZRem(p) ==
    /\ procs[p].pc = "zrem"
    /\ Submit(p, [procs[p] EXCEPT !.pc = "deleteItem"], <<CmdZRem(procs[p].id)>>)
    /\ UNCHANGED dynamo
    /\ UNCHANGED UnchangedByConc

(* dynamoClient.DeleteItem *)
StepDeleteItem(p) ==
    /\ procs[p].pc = "deleteItem"
    /\ dynamo' = DynamoDeleteItem(dynamo, procs[p].id)
    /\ Local(p, [procs[p] EXCEPT !.pc = "done"])
    /\ UNCHANGED cache
    /\ UNCHANGED UnchangedByConc

NextConc ==
    \/ \E p \in Procs : StepExists(p)
    \/ \E p \in Procs : StepNextPage(p)
    \/ \E p \in Procs : StepExecPopulation(p)
    \/ \E p \in Procs : StepZRevRange(p)
    \/ \E p \in Procs : StepZScore(p)
    \/ \E p \in Procs : StepZRevRank(p)
    \/ \E p \in Procs : StepUpdateItem(p)
    \/ \E p \in Procs : StepGetItem(p)
    \/ \E p \in Procs : StepPutItem(p)
    \/ \E p \in Procs : StepExecPipe(p)
    \/ \E p \in Procs : StepZRem(p)
    \/ \E p \in Procs : StepDeleteItem(p)

SpecConc == InitConc /\ [][NextConc]_vars

----------------------------------------------------------------------------
(* Properties *)

HasRecord(id) == id \in DOMAIN dynamo
InCache(id) == id \in DOMAIN cache.z

(* C1: for a participant that had no record and has since been the target *)
(* of successful UpdateScore calls only, after each such call the          *)
(* authoritative score and the cache score both equal the sum of the       *)
(* deltas, whether the cache was cold or warm before the call.             *)
C1_IncrementComposition ==
    (last.op = "UpdateScore" /\ last.err = "none" /\ last.id \in DOMAIN sums) =>
        /\ HasRecord(last.id) /\ dynamo[last.id] = sums[last.id]
        /\ InCache(last.id) /\ cache.z[last.id] = sums[last.id]

(* C2: when ensureLeaderboardExists is called twice in immediate          *)
(* succession and the first call returns success, at most one of the two   *)
(* calls scans the authoritative store.                                    *)
C2_WarmUpIdempotent ==
    (last.op = "EnsureWarm" /\ prev.op = "EnsureWarm" /\ prev.err = "none")
        => ~(prev.scanned /\ last.scanned)

(* C3: a GetParticipantScoreAndRank for m that immediately follows a       *)
(* successful LeaveLeaderboard for m never returns a result, and returns   *)
(* participant-not-found whenever its cache calls succeed, whatever the    *)
(* cache held before, also when m was the only member and the read         *)
(* re-populates the cache.                                                 *)
C3_LeaveThenRead ==
    (last.op = "GetParticipantScoreAndRank" /\ prev.op = "LeaveLeaderboard"
        /\ prev.err = "none" /\ prev.id = last.id) =>
        /\ last.err # "none"
        /\ ~CacheFault(last.fault) => last.err = "NotFound"

(* the leave removed the only member of a warm cache, the read found the   *)
(* key gone, re-populated the cache and reported not-found                 *)
C3_Witness ==
    /\ last.op = "GetParticipantScoreAndRank" /\ prev.op = "LeaveLeaderboard"
    /\ prev.err = "none" /\ prev.id = last.id
    /\ prev.warmBefore /\ ~last.warmBefore /\ last.scanned
    /\ last.fault = NoFault
    /\ last.err = "NotFound"

(* C4: GetParticipantScoreAndRank for an identifier that has no record and *)
(* was never the target of a write never returns a result (so no zero      *)
(* score), and returns participant-not-found whenever its cache calls      *)
(* succeed, for a cold and for a warm cache.                               *)
C4_NotFound ==
    (last.op = "GetParticipantScoreAndRank" /\ last.id \notin touched) =>
        /\ last.err # "none"
        /\ last.res = <<>>
        /\ ~CacheFault(last.fault) => last.err = "NotFound"

(* the cache was cold, the read populated it and reported not-found *)
C4_Witness ==
    /\ last.op = "GetParticipantScoreAndRank" /\ last.id \notin touched
    /\ ~last.warmBefore /\ last.scanned /\ KeyExists(cache)
    /\ last.err = "NotFound"

(* C6: the population batch of a cold cache holds an Expire command if and *)
(* only if leaderboardEndTime + 24h is strictly after the current time,    *)
(* every Expire it holds has a positive duration, and a key left by the    *)
(* call has no deadline at or before the current time.                     *)
C6_ExpiryBoundary ==
    last.scanned =>
        /\ (\E i \in 1..Len(last.batch) : last.batch[i].op = "EXPIRE")
                <=> (endTime + GracePeriod > now)
        /\ \A i \in 1..Len(last.batch) :
                last.batch[i].op = "EXPIRE" => last.batch[i].arg > 0
        /\ \A dl \in cache.ttl : dl > now

(* the deadline equals the current time: the cache is populated and the    *)
(* key carries no deadline                                                 *)
C6_Witness ==
    /\ last.scanned /\ last.err = "none"
    /\ endTime + GracePeriod = now
    /\ KeyExists(cache) /\ cache.ttl = {}
    /\ \A i \in 1..Len(last.batch) : last.batch[i].op # "EXPIRE"

Min(a, b) == IF a < b THEN a ELSE b

(* the returned list is the first len members of the cache in descending   *)
(* score order, ranked 1..len by position                                  *)
TopByRank(r, z) ==
    /\ \A i \in 1..Len(r) :
            /\ r[i].Rank = i
            /\ r[i].Member \in DOMAIN z
            /\ r[i].Score = z[r[i].Member]
    /\ \A i, j \in 1..Len(r) :
            i < j => r[i].Score >= r[j].Score /\ r[i].Member # r[j].Member
    /\ \A m \in DOMAIN z :
            (\A i \in 1..Len(r) : r[i].Member # m)
                => \A i \in 1..Len(r) : z[m] <= r[i].Score

(* C5: GetTopNParticipants(n) on a cache holding k members returns        *)
(* min(n, k) members, in descending score order, ranked 1..min(n, k) by    *)
(* position, members of equal score included.                              *)
C5_RankOrdering ==
    (last.op = "GetTopNParticipants" /\ last.err = "none") =>
        /\ TopByRank(last.res, cache.z)
        /\ Len(last.res) = Min(last.n, Cardinality(DOMAIN cache.z))

(* C7: for every clientID and userID that do not contain the separator,    *)
(* SplitNamespacedUserID(CreateNamespacedUserID(clientID, userID)) is      *)
(* (clientID, userID).                                                     *)
C7_RoundTrip ==
    (last.op = "SplitNamespacedUserID"
        /\ last.arg = CreateNamespacedUserID(clientID, userID)
        /\ ~ContainsSep(clientID) /\ ~ContainsSep(userID)) =>
        last.res = <<clientID, userID>>

HelperOps == {"HelperUpdateScore", "HelperGetParticipantScoreAndRank"}

(* C8 as stated: a namespaced user ID is accepted by                       *)
(* validateNamespacedUserID if and only if it contains exactly one         *)
(* occurrence of the separator.                                            *)
C8_ExactlyOneOccurrence ==
    last.op = "validateNamespacedUserID" =>
        (last.err = "none" <=> ExactlyOneSep(last.arg))

(* the text before the first separator and the text after it are not empty *)
PartsNotEmpty(s) == IndexSep(s) > 1 /\ IndexSep(s) + 2 < Len(s)

(* C8 as amended: a namespaced user ID is accepted if and only if it      *)
(* contains exactly one occurrence of the separator, counted without       *)
(* overlap, with a non-empty part before it and a non-empty part after it; *)
(* UpdateScore and GetParticipantScoreAndRank of the helper reject every   *)
(* other string with the invalid-format error before any store is touched. *)
C8_InvalidIdentifier ==
    /\ last.op = "validateNamespacedUserID" =>
            (last.err = "none" <=> (ExactlyOneSep(last.arg) /\ PartsNotEmpty(last.arg)))
    /\ last.op \in HelperOps =>
            IF ExactlyOneSep(last.arg) /\ PartsNotEmpty(last.arg)
            THEN last.err # "InvalidIdentifier"
            ELSE /\ last.err = "InvalidIdentifier"
                 /\ ~last.scanned
                 /\ dynamo = StoreOf(RepoIDs)
                 /\ cache = ColdCache

(* the helper's UpdateScore rejected a string with two separators and      *)
(* left both stores alone                                                  *)
C8_Witness ==
    /\ last.op = "HelperUpdateScore"
    /\ Cardinality(Occurrences(last.arg)) >= 2
    /\ ~ExactlyOneSep(last.arg)
    /\ last.err = "InvalidIdentifier"
    /\ dynamo = StoreOf(RepoIDs) /\ cache = ColdCache

ScoreIn(d, id) == IF id \in DOMAIN d THEN d[id] ELSE 0

(* C9: a JoinLeaderboard for a participant that already has a record       *)
(* leaves the participant's authoritative score and cache score unchanged. *)
C9_JoinExistingUnchanged ==
    [][(last'.op = "JoinLeaderboard" /\ calls' = calls + 1 /\ last'.id \in DOMAIN dynamo) =>
            /\ last'.id \in DOMAIN dynamo'
            /\ dynamo'[last'.id] = dynamo[last'.id]
            /\ last'.id \in DOMAIN cache.z =>
                    /\ last'.id \in DOMAIN cache'.z
                    /\ cache'.z[last'.id] = cache.z[last'.id]]_vars

(* C10: UpdateScore returns success only if the authoritative increment    *)
(* and the cache submission both succeeded; when the authoritative         *)
(* increment fails it returns an error and leaves the cache unchanged,     *)
(* without warm-up; when the authoritative increment succeeds and the      *)
(* warm-up or the cache submission fails it returns an error and the       *)
(* authoritative score has advanced by the delta.                          *)
C10_DualWriteOutcome ==
    [][(last'.op = "UpdateScore" /\ calls' = calls + 1) =>
            LET id == last'.id
                f == last'.fault
            IN  /\ last'.err = "none" => ~f.write /\ ~f.pipe
                /\ f.write =>
                        /\ last'.err # "none"
                        /\ ~last'.scanned
                        /\ cache' = cache
                        /\ dynamo' = dynamo
                /\ (~f.write /\ f.pipe) => last'.err # "none"
                /\ (~f.write /\ last'.err # "none") =>
                        ScoreIn(dynamo', id) = ScoreIn(dynamo, id) + last'.delta]_vars

(* C11: when the key is absent and the scan fails, on the first or on a    *)
(* later page, ensureLeaderboardExists queues the placeholder entry after  *)
(* the commands of the scan, applies the expiry rule and submits the       *)
(* batch; it returns success exactly when the submission succeeds, the     *)
(* key then exists and the next EnsureWarm does not scan.  It returns an   *)
(* error only when the existence check or the batch submission fails.      *)
C11_ScanFailureFallback ==
    /\ last.scanFailed =>
            /\ Head(last.batch) = CmdDel
            /\ \E i \in 1..Len(last.batch) : last.batch[i] = Placeholder
            /\ (\E i \in 1..Len(last.batch) : last.batch[i].op = "EXPIRE")
                    <=> (endTime + GracePeriod > now)
    /\ (last.op = "EnsureWarm" /\ last.scanFailed) =>
            /\ last.err = "none" <=> ~last.fault.exec
            /\ last.err = "none" => KeyExists(cache)
    /\ (last.op = "EnsureWarm" /\ last.err # "none") =>
            last.fault.exists \/ last.fault.exec
    /\ (last.op = "EnsureWarm" /\ prev.op = "EnsureWarm"
            /\ prev.err = "none" /\ prev.scanFailed) => ~last.scanned

(* the scan failed on its second page: the first page's members and the    *)
(* placeholder are in the cache, and the next EnsureWarm did not scan      *)
C11_Witness ==
    /\ last.op = "EnsureWarm" /\ prev.op = "EnsureWarm"
    /\ prev.scanFailed /\ prev.err = "none"
    /\ ~last.scanned /\ last.err = "none"
    /\ InCache(<<>>)
    /\ Cardinality(DOMAIN cache.z) = PageSize + 1

(* the operations that call ensureLeaderboardExists and do nothing else to *)
(* the cache                                                               *)
WarmUpOnlyOps == {"EnsureWarm", "GetTopNParticipants", "GetParticipantScoreAndRank"}

(* the operations that call ensureLeaderboardExists *)
WarmUpOps == WarmUpOnlyOps \cup {"UpdateScore", "JoinLeaderboard"}

(* C12: when the key exists, a call of ensureLeaderboardExists scans       *)
(* nothing and submits no batch; the members, their scores and the key's   *)
(* deadline are unchanged by it.                                           *)
C12_WarmCacheLeftAlone ==
    [][(calls' = calls + 1 /\ KeyExists(cache) /\ last'.op \in WarmUpOps) =>
            /\ ~last'.scanned
            /\ last'.batch = <<>>
            /\ cache'.ttl = cache.ttl
            /\ last'.op \in WarmUpOnlyOps => cache' = cache]_vars

(* EnsureWarm returned success on a key with two members and a deadline *)
C12_Witness ==
    /\ last.op = "EnsureWarm" /\ last.warmBefore
    /\ last.err = "none" /\ ~last.scanned
    /\ cache.ttl # {}
    /\ Cardinality(DOMAIN cache.z) >= 2

(* the member/score pairs of the ZAdd commands of a batch *)
Inserted(batch) ==
    {<<batch[i].member, batch[i].arg>> : i \in {j \in 1..Len(batch) : batch[j].op = "ZADD"}}

(* the namespacedUserID/score pairs of the authoritative records *)
Records(d) == {<<id, d[id]>> : id \in DOMAIN d}

(* C13: when a call populates a cold cache and every page of the scan is   *)
(* read and unmarshalled, the batch inserts exactly the authoritative      *)
(* records with their scores; when the submission succeeds and the call    *)
(* writes nothing else, the members of the cache are exactly the           *)
(* namespacedUserIDs that have a record, each with its authoritative score.*)
C13_PopulationExact ==
    (last.scanned /\ ~last.scanFailed /\ last.fault.badPage = 0) =>
        /\ Inserted(last.batch) = Records(dynamo)
        /\ (last.op \in WarmUpOnlyOps /\ last.err = "none") =>
                /\ DOMAIN cache.z = DOMAIN dynamo
                /\ \A id \in DOMAIN dynamo : cache.z[id] = dynamo[id]

(* a cold cache was populated from a store whose records fill more than    *)
(* one page                                                                *)
C13_Witness ==
    /\ last.op = "EnsureWarm" /\ ~last.warmBefore /\ last.scanned
    /\ last.err = "none" /\ last.fault = NoFault
    /\ Cardinality(DOMAIN dynamo) > PageSize
    /\ DOMAIN cache.z = DOMAIN dynamo

AllDone == \A p \in Procs : procs[p].pc = "done"

(* every member of the cache has a record with the same score *)
CacheAgrees == \A m \in DOMAIN cache.z : m \in DOMAIN dynamo /\ cache.z[m] = dynamo[m]

(* C14: when the cache began cold, the calls are EnsureWarm and            *)
(* UpdateScore calls and two or more EnsureWarm calls have each scanned    *)
(* and submitted their population batch, then once all calls have          *)
(* completed the cache score of every member equals its authoritative      *)
(* score.                                                                  *)
C14_RacingWarmUps ==
    (/\ AllDone
     /\ ~KeyExists(began.cache)
     /\ \A p \in Procs : procs[p].op \in {"EnsureWarm", "UpdateScore"}
     /\ Cardinality({p \in Procs : procs[p].op = "EnsureWarm" /\ procs[p].scanned}) >= 2)
        => CacheAgrees

ReadOps == {"GetTopNParticipants", "GetParticipantScoreAndRank"}

(* C15: when one LeaveLeaderboard for m runs together with reads only,     *)
(* then once the LeaveLeaderboard has returned success and the reads have  *)
(* finished, m is not a member of the cache.                               *)
C15_LeaveDoesNotResurface ==
    \A p \in Procs :
        (/\ AllDone
         /\ procs[p].op = "LeaveLeaderboard" /\ procs[p].err = "none"
         /\ \A q \in Procs \ {p} : procs[q].op \in ReadOps)
            => procs[p].id \notin DOMAIN cache.z

(* C16: when the cache began warm and two UpdateScore calls for the same   *)
(* participant run together (the other calls only read), then after both   *)
(* have returned success the authoritative score and the cache score have  *)
(* both increased by the sum of the two deltas.                            *)
C16_ConcurrentDeltasCompose ==
    \A p, q \in Procs :
        (/\ p < q
         /\ AllDone
         /\ KeyExists(began.cache)
         /\ procs[p].op = "UpdateScore" /\ procs[q].op = "UpdateScore"
         /\ procs[p].id = procs[q].id
         /\ procs[p].err = "none" /\ procs[q].err = "none"
         /\ \A r \in Procs \ {p, q} : procs[r].op \in WarmUpOnlyOps)
            => LET id == procs[p].id
                   sum == procs[p].arg + procs[q].arg
               IN  /\ ScoreIn(dynamo, id) = ScoreIn(began.dynamo, id) + sum
                   /\ ScoreIn(cache.z, id) = ScoreIn(began.cache.z, id) + sum

(* C17: while leaderboardEndTime + 24h is in the future, in every state    *)
(* reached by interleaved calls a cache key that exists carries an expiry  *)
(* deadline.                                                               *)
C17_NoKeyWithoutDeadline ==
    (endTime + GracePeriod > now /\ KeyExists(cache)) => cache.ttl # {}

(* C18: for every n >= 0 and every cache holding k members,                *)
(* GetTopNParticipants(n) returns exactly min(n, k) entries.               *)
C18_TopNSizeBound ==
    (last.op = "GetTopNParticipants" /\ last.err = "none") =>
        Len(last.res) = Min(last.n, Cardinality(DOMAIN cache.z))

(* C19: after the helper's UpdateScore(id, delta) has returned success,    *)
(* the record and the cache member keyed by id exist, and the helper's     *)
(* GetParticipantScoreAndRank(id) that follows finds the participant.      *)
C19_UpdateTargetsIdentifier ==
    /\ (last.op = "HelperUpdateScore" /\ last.err = "none") =>
            /\ last.id = last.arg
            /\ HasRecord(last.arg) /\ InCache(last.arg)
    /\ (last.op = "HelperGetParticipantScoreAndRank" /\ prev.op = "HelperUpdateScore"
            /\ prev.err = "none") =>
            /\ last.err = "none"
            /\ Len(last.res) = 1 /\ last.res[1].Member = last.arg

(* the sorted set z holds member id with this score at this rank *)
HeldTogether(z, id, score, rank) ==
    id \in DOMAIN z /\ z[id] = score /\ ZRevRank(z, id) + 1 = rank

(* C20: with no store call failing, a GetParticipantScoreAndRank that      *)
(* finds the member absent at its score lookup or at its rank lookup       *)
(* returns participant-not-found, never the store failure; a result it     *)
(* returns holds the score and the rank the member had together in one of  *)
(* the states the cache went through between the two lookups.              *)
C20_NotFoundDistinct ==
    \A p \in Procs :
        (procs[p].op = "GetParticipantScoreAndRank" /\ procs[p].pc = "done") =>
            /\ procs[p].err \in {"none", "NotFound"}
            /\ procs[p].err = "none" =>
                    \E z \in procs[p].seen :
                        HeldTogether(z, procs[p].id, procs[p].res[1].Score, procs[p].res[1].Rank)

====
